---------------------------- MODULE Spec2Model ----------------------------
(***************************************************************************)
(* document-extractor: one run of the orchestrator (process_run.py) over   *)
(* a run directory, the per-format passes it dispatches (pass_pdf.py,      *)
(* pass_doc.py, pass_txt.py, pass_img.py) and the centralized output       *)
(* writer (output_writer.py).                                              *)
(*                                                                         *)
(* Text is modelled by what the code looks at: a text is a sequence of     *)
(* runs [c, n], n characters of class c, where c is "A" (str.isalnum),     *)
(* "S" (whitespace, removed by str.strip) or "P" (anything else).  All    *)
(* characters are one byte in UTF-8.                                       *)
(*                                                                         *)
(* Reliability scores are fixed-point numbers in ticks of 1/ScoreUnit      *)
(* (0.00005): score_reliability rounds to four decimals, and the median    *)
(* of an even number of such values is a multiple of half of 0.0001.       *)
(***************************************************************************)
EXTENDS Integers, Sequences, FiniteSets, TLC

VARIABLES
    pc,         \* position of process_run.main: start, walk, pass, returned, done, crashed
    step,       \* position inside the running pass script
    cur,        \* the file the loop body is handling (fpath)
    rc,         \* exit code of the pass script that has returned
    ctx,        \* local variables of the running pass script
    tree,       \* files present in the run directory
    dirsLeft,   \* directories os.walk has not listed yet
    todo,       \* files of the listed directory the loop has not handled yet
    handled,    \* files the loop body has handled, in order
    catalog,    \* the run catalog: the lines of <output>/<name>.csv
    csvStem,    \* name of the catalog file without ".csv"
    txtFiles,   \* <output>/txt/: txt_relative_path -> lines of the file
    chunks,     \* <output>/<run>_all_text_NNN.txt: chunk number -> lines
    manifest,   \* <output>/review_manifest.csv: its lines
    mr,         \* <output>/Mandatory Review/: basename -> the file stored
    disp,       \* what the orchestrator did with each source file
    passLog,    \* lines the running pass script has logged
    faults,     \* I/O failures injected so far
    portfolio   \* the portfolio pre-pass: whether it ran, the parents it moved
                \* to the work directory, the parents it renamed in place

vars == <<pc, step, cur, rc, ctx, tree, dirsLeft, todo, handled, catalog, csvStem,
          txtFiles, chunks, manifest, mr, disp, passLog, faults, portfolio>>

-----------------------------------------------------------------------------
(* Bounds of the model *)

MaxFiles == 2       \* files in the run directory at the start
MaxPages == 2       \* pages of a PDF, frames of an image
MaxFaults == 1      \* I/O failures in one run
MaxPdfs == 1        \* PDF files in the run directory at the start
MaxOcrBPages == 3   \* pages of the PDF that reaches OCR-B on its own (SpecOcrB)
MaxRunLen == 7      \* characters of one kind in a row in a scored text (SpecScore)

-----------------------------------------------------------------------------
(* Generic helpers *)

RECURSIVE SumSeq(_)
SumSeq(s) == IF s = <<>> THEN 0 ELSE Head(s) + SumSeq(Tail(s))

Max2(a, b) == IF a >= b THEN a ELSE b
Min2(a, b) == IF a <= b THEN a ELSE b

\* p/q rounded to the nearest integer, ties to even (Python's round and "%.2f")
RoundHalfEven(p, q) ==
    LET f == p \div q
        r == p % q
    IN  IF 2 * r < q THEN f
        ELSE IF 2 * r > q THEN f + 1
        ELSE IF f % 2 = 0 THEN f ELSE f + 1

-----------------------------------------------------------------------------
(* Texts *)

Run(c, n) == [c |-> c, n |-> n]
Txt(c, n) == << Run(c, n) >>
Empty == << >>

TLen(t) == SumSeq([i \in 1..Len(t) |-> t[i].n])
AlnumCount(t) == SumSeq([i \in 1..Len(t) |-> IF t[i].c = "A" THEN t[i].n ELSE 0])

\* bool(text.strip()): some character is not whitespace
HasNonWs(t) == \E i \in 1..Len(t) : t[i].c # "S" /\ t[i].n > 0

\* len(text.strip())
StripLen(t) ==
    IF ~HasNonWs(t) THEN 0
    ELSE LET idx == {i \in 1..Len(t) : t[i].c # "S" /\ t[i].n > 0}
             lo == CHOOSE i \in idx : \A j \in idx : i <= j
             hi == CHOOSE i \in idx : \A j \in idx : i >= j
         IN  SumSeq([i \in 1..(hi - lo + 1) |-> t[lo + i - 1].n])

\* sep.join(ts)
RECURSIVE Join(_, _)
Join(sep, ts) ==
    IF ts = <<>> THEN Empty
    ELSE IF Len(ts) = 1 THEN ts[1]
    ELSE ts[1] \o sep \o Join(sep, Tail(ts))

Newline == Txt("S", 1)
Space == Txt("S", 1)

-----------------------------------------------------------------------------
(* Reliability (common.py) *)

ScoreUnit == 2 * 10000

\* a decimal fraction n/d as a score
Frac(n, d) == (n * ScoreUnit) \div d

\* score_reliability cutting the ratio off after four decimals
score_reliability_cut(text) ==
    IF TLen(text) = 0 THEN 0
    ELSE ((AlnumCount(text) * 10000) \div TLen(text)) * (ScoreUnit \div 10000)

score_reliability(text) ==
    IF TLen(text) = 0 THEN 0
    ELSE LET total == TLen(text)
             alnum == AlnumCount(text)
             s4 == RoundHalfEven(alnum * 10000, total)
         IN  Max2(0, Min2(10000, s4)) * (ScoreUnit \div 10000)

\* the values in ascending order
RECURSIVE SortAsc(_)
SortAsc(s) ==
    IF s = <<>> THEN <<>>
    ELSE LET m == CHOOSE i \in 1..Len(s) : \A j \in 1..Len(s) : s[i] <= s[j]
         IN  <<s[m]>> \o SortAsc([k \in 1..(Len(s) - 1) |-> IF k < m THEN s[k] ELSE s[k + 1]])

median(values) ==
    IF values = <<>> THEN 0
    ELSE LET v == SortAsc(values)
             mid == Len(v) \div 2
         IN  IF Len(v) % 2 = 1 THEN v[mid + 1] ELSE (v[mid] + v[mid + 1]) \div 2

likely_scan_only(samples) ==
    IF samples = <<>> THEN TRUE
    ELSE LET text == Join(Space, samples)
         IN  \/ StripLen(text) < 40
             \/ score_reliability(text) < Frac(15, 100)

-----------------------------------------------------------------------------
(* Number formatting *)

RECURSIVE PadDigits(_, _)
\* the last k decimal digits of x, zero-padded
PadDigits(x, k) == IF k = 0 THEN "" ELSE PadDigits(x \div 10, k - 1) \o ToString(x % 10)

RECURSIVE Pow10(_)
Pow10(k) == IF k = 0 THEN 1 ELSE 10 * Pow10(k - 1)

\* str(float): the shortest decimal that reads back, at least one decimal
PyFloatStr(v) ==
    LET w == v * (100000 \div ScoreUnit)
        ip == w \div 100000
        fr == w % 100000
        d == CHOOSE k \in 1..5 : /\ fr % Pow10(5 - k) = 0
                                 /\ \A j \in 1..5 : fr % Pow10(5 - j) = 0 => k <= j
    IN  ToString(ip) \o "." \o PadDigits(fr \div Pow10(5 - d), d)

\* f"{float(score):.2f}"
Fmt2(v) ==
    LET h == RoundHalfEven(v * 100, ScoreUnit)
    IN  ToString(h \div 100) \o "." \o PadDigits(h % 100, 2)

-----------------------------------------------------------------------------
(* Paths: the directories, then the name split as pathlib does (stem, suffix) *)

Path(dirs, stem, ext) == [dirs |-> dirs, stem |-> stem, ext |-> ext]

PathName(p) == p.stem \o p.ext

RECURSIVE JoinDirs(_)
JoinDirs(ds) == IF ds = <<>> THEN "" ELSE ds[1] \o "/" \o JoinDirs(Tail(ds))

\* str(path) of a relative path
PathStr(p) == JoinDirs(p.dirs) \o PathName(p)
\* str(path) of an absolute path
AbsStr(p) == "/" \o PathStr(p)

IsPrefix(a, b) == Len(a) <= Len(b) /\ SubSeq(b, 1, Len(a)) = a

\* path.with_suffix(ext)
with_suffix(p, ext) == [p EXCEPT !.ext = ext]

\* the environment of the run
INPUT_DIR == <<"data", "input">>
RunName == "run1"
RunDir == INPUT_DIR \o <<RunName>>
OutputDir == <<"data", "output", RunName>>

\* A file of the run tree is named by its path below the run directory.
AbsPath(f) == Path(RunDir \o f.dirs, f.stem, f.ext)
\* str(fpath.relative_to(run_dir))
RelToRun(f) == PathStr(f)

-----------------------------------------------------------------------------
(* Lines of the text artifacts: a literal line, or the text of a page *)

Lit(s) == [lit |-> s]
Body(t) == [body |-> t]
IsLit(l) == "lit" \in DOMAIN l

LineBytes(l) == IF IsLit(l) THEN Len(l.lit) ELSE TLen(l.body)

\* len(("\n".join(lines) + "\n").encode("utf-8"))
BlockBytes(lines) == SumSeq([i \in 1..Len(lines) |-> LineBytes(lines[i]) + 1])

PageMarker(n) == "=== [PAGE " \o ToString(n) \o "] ==="

DOCUMENT_BREAK == << Lit("----- DOCUMENT BREAK -----"), Lit("") >>

Now == "2026-01-01T00:00:00Z"

-----------------------------------------------------------------------------
(* Output writer (output_writer.py) *)

max_bytes_default == 3000000

\* int(os.getenv("MAX_COMBINED_BYTES", str(max_bytes_default))): the runs modelled
\* here set the variable, so that a chunk fills up after a few short documents
MAX_COMBINED_BYTES == 400

\* What one call of write_result may find failing: nothing, the mkdir of the text
\* file's parent, the open/write of the text file, the append to the combined
\* chunk, the append to the catalog.
WriterIO == {"ok", "mkdir_txt", "write_txt", "append_combined", "append_csv"}

_compute_paths(f) ==
    LET orig_path == AbsPath(f)
        relative_path ==
            IF IsPrefix(INPUT_DIR, orig_path.dirs)
            THEN Path(SubSeq(orig_path.dirs, Len(INPUT_DIR) + 1, Len(orig_path.dirs)),
                      orig_path.stem, orig_path.ext)
            ELSE Path(<<>>, orig_path.stem, orig_path.ext)
    IN  [orig_path |-> orig_path,
         relative_path |-> PathStr(relative_path),
         txt_relative_path |-> PathStr(with_suffix(relative_path, ".txt"))]

\* has_text: some page has text that is not all whitespace
HasText(pages) == \E i \in 1..Len(pages) : HasNonWs(pages[i][2])

\* content_lines for one page
PageLines(page) ==
    << Lit(PageMarker(page[1])), Lit("") >>
    \o (IF TLen(page[2]) > 0 THEN << Body(page[2]) >> ELSE << >>)
    \o << Lit("") >>

RECURSIVE PagesLines(_)
PagesLines(pages) ==
    IF pages = <<>> THEN <<>> ELSE PageLines(Head(pages)) \o PagesLines(Tail(pages))

\* content_lines: the header, a blank line, the pages
DocBlock(f, pages, pass_used, score, status) ==
    LET cp == _compute_paths(f)
    IN  << Lit("# original_file: " \o AbsStr(cp.orig_path)),
           Lit("# original_name: " \o PathName(cp.orig_path)),
           Lit("# relative_path: " \o cp.relative_path),
           Lit("# pages: " \o ToString(Len(pages))),
           Lit("# processed_at: " \o Now),
           Lit("# pass_used: " \o pass_used),
           Lit("# score: " \o PyFloatStr(score)),
           Lit("# status: " \o status),
           Lit("") >>
        \o PagesLines(pages)

MaxOf(S) == CHOOSE n \in S : \A m \in S : m <= n

\* The number NNN of the chunk <run>_all_text_NNN.txt the block is appended to.
\* Chunk names are zero-padded to three digits, so sorted(glob) is numeric order.
_pick_combined_path(chs, doc_bytes) ==
    LET existing == DOMAIN chs
    IN  IF existing = {} THEN 1
        ELSE LET current == MaxOf(existing)
                 current_size == BlockBytes(chs[current])
                 max_bytes == MAX_COMBINED_BYTES
             IN  IF current_size + doc_bytes <= max_bytes
                 THEN current
                 ELSE current + 1

\* cf.write(doc_text_block); cf.write("----- DOCUMENT BREAK -----\n\n"), mode "a"
AppendCombined(chs, block) ==
    LET n == _pick_combined_path(chs, BlockBytes(block))
        old == IF n \in DOMAIN chs THEN chs[n] ELSE <<>>
    IN  [k \in DOMAIN chs \cup {n} |->
            IF k = n THEN old \o block \o DOCUMENT_BREAK ELSE chs[k]]

\* the row with used_ocr written as "false" whatever the pass
CatalogRowOcrUnset(f, pages, txt_relative_str, pass_used, score, status, used_ocr, stem) ==
    LET cp == _compute_paths(f)
    IN  << AbsStr(cp.orig_path), PathName(cp.orig_path), cp.relative_path, txt_relative_str,
           ToString(Len(pages)), Now, pass_used, Fmt2(score), status, "false", stem, "" >>

\* the row write_result appends to the catalog
CatalogRow(f, pages, txt_relative_str, pass_used, score, status, used_ocr, stem) ==
    LET cp == _compute_paths(f)
    IN  << AbsStr(cp.orig_path),
           PathName(cp.orig_path),
           cp.relative_path,
           txt_relative_str,
           ToString(Len(pages)),
           Now,
           pass_used,
           Fmt2(score),
           status,
           IF used_ocr THEN "true" ELSE "false",
           stem,
           "" >>

\* write_result on the files (txtFiles, chunks, catalog); raised: the call ended
\* in an exception, which nothing in the pass scripts catches.
write_result(files, f, pages, pass_used, score, status, used_ocr, io) ==
    LET cp == _compute_paths(f)
        has_text == HasText(pages)
        block == DocBlock(f, pages, pass_used, score, status)
        raised == has_text /\ io = "mkdir_txt"
        txt_ok == has_text /\ io # "write_txt"
        txt_relative_str == IF txt_ok THEN cp.txt_relative_path ELSE ""
        txt2 == IF txt_ok
                THEN [k \in DOMAIN files.txtFiles \cup {cp.txt_relative_path} |->
                        IF k = cp.txt_relative_path THEN block ELSE files.txtFiles[k]]
                ELSE files.txtFiles
        chunks2 == IF has_text /\ io # "append_combined"
                   THEN AppendCombined(files.chunks, block)
                   ELSE files.chunks
        catalog2 == IF io # "append_csv"
                    THEN Append(files.catalog,
                                CatalogRow(f, pages, txt_relative_str, pass_used, score,
                                           status, used_ocr, files.csvStem))
                    ELSE files.catalog
    IN  IF raised
        THEN [files EXCEPT !.raised = TRUE]
        ELSE [files EXCEPT !.txtFiles = txt2, !.chunks = chunks2, !.catalog = catalog2]

\* the faults write_result can meet with these pages
WriterFaults(pages) == IF HasText(pages) THEN WriterIO ELSE {"ok", "append_csv"}

-----------------------------------------------------------------------------
(* PDF helpers (common.py).  A PDF is read through its text layers: layers[n]  *)
(* is the text layer of page n, Len(layers) the page count.                  *)

_clamp_page_index_for_fitz(page_index_1based, total_pages) ==
    IF total_pages <= 0 THEN 0
    ELSE LET p0 == IF page_index_1based <= 0 THEN 1 ELSE page_index_1based
             p == IF p0 > total_pages THEN total_pages ELSE p0
         IN  p - 1

\* fitz pages are 0-based: doc.load_page(idx0) is page idx0 + 1
extract_text_layer(layers, page_index) ==
    layers[_clamp_page_index_for_fitz(page_index, Len(layers)) + 1]

\* the set as an ascending sequence
RECURSIVE SortedSeq(_)
SortedSeq(S) ==
    IF S = {} THEN <<>>
    ELSE LET m == CHOOSE x \in S : \A y \in S : x <= y
         IN  <<m>> \o SortedSeq(S \ {m})

RECURSIVE PadPicks(_, _, _)
PadPicks(picks, n, t) ==
    IF Cardinality(picks) >= t \/ (1..n) \ picks = {} THEN picks
    ELSE PadPicks(picks \cup {CHOOSE j \in (1..n) \ picks : \A k \in (1..n) \ picks : j <= k},
                  n, t)

sample_page_indices(total_pages, target) ==
    LET n == Max2(0, total_pages)
        t == Max2(1, target)
    IN  IF n <= t THEN [i \in 1..n |-> i]
        ELSE LET picks == {Max2(1, Min2(n, RoundHalfEven(n * i, t + 1))) : i \in 1..t}
             IN  SortedSeq(PadPicks(picks, n, t))

-----------------------------------------------------------------------------
(* Text-layer pass (pass_pdf_txt.py) *)

PageRow(n, text) == [page |-> n, text |-> text, reliability |-> score_reliability(text)]

_per_page(layers) ==
    [k \in 1..Len(layers) |-> PageRow(k, extract_text_layer(layers, k - 1))]

Reliabilities(rows) == [k \in 1..Len(rows) |-> rows[k].reliability]
Texts(rows) == [k \in 1..Len(rows) |-> rows[k].text]

Reject == [ok |-> FALSE]
AcceptPages(rows) == [ok |-> TRUE, payload |-> [pages |-> rows]]
AcceptDoc(text, med) == [ok |-> TRUE, payload |-> [text |-> text, reliability |-> med]]

pass_pdf_txt_run(layers, mode, cutoff) ==
    LET total_pages == Len(layers)
        sample_idxs == sample_page_indices(total_pages, Min2(6, total_pages))
        samples == [k \in 1..Len(sample_idxs) |-> extract_text_layer(layers, sample_idxs[k])]
        pages == _per_page(layers)
        med == median(Reliabilities(pages))
    IN  IF likely_scan_only(samples) THEN Reject
        ELSE IF mode = "per-page"
        THEN (IF med >= cutoff THEN AcceptPages(pages) ELSE Reject)
        ELSE (IF med >= cutoff THEN AcceptDoc(Join(Newline, Texts(pages)), med) ELSE Reject)

-----------------------------------------------------------------------------
(* OCR passes (pass_pdf_ocr_a.py, pass_pdf_ocr_b.py) *)

\* ocr[n]: what OCR of the 300 DPI render of page n returns ("" on an error)
pass_pdf_ocr_a_run(ocr, mode, cutoff) ==
    LET rows == [k \in 1..Len(ocr) |-> PageRow(k, ocr[k])]
        med == median(Reliabilities(rows))
    IN  IF mode = "per-page"
        THEN (IF med >= cutoff THEN AcceptPages(rows) ELSE Reject)
        ELSE (IF med >= cutoff THEN AcceptDoc(Join(Newline, Texts(rows)), med) ELSE Reject)

ROTATIONS == <<0, 90, 270>>

\* rots[k]: what OCR returns for the render rotated by ROTATIONS[k]
RECURSIVE BestFrom(_, _, _)
BestFrom(texts, best_text, best_rel) ==
    IF texts = <<>> THEN [text |-> best_text, reliability |-> best_rel]
    ELSE LET text == Head(texts)
             rel == score_reliability(text)
         IN  IF rel > best_rel
             THEN BestFrom(Tail(texts), text, rel)
             ELSE BestFrom(Tail(texts), best_text, best_rel)

\* _best_ocr_text without the sweep: the unrotated render is taken
_best_ocr_text_unrotated(rots) ==
    [text |-> rots[1], reliability |-> score_reliability(rots[1])]

_best_ocr_text(rots) == BestFrom(rots, Empty, 0)

\* rotsOf[n]: the OCR outputs of page n's 400 DPI render, one per rotation
pass_pdf_ocr_b_run(rotsOf, mode, cutoff) ==
    LET best == [k \in 1..Len(rotsOf) |-> _best_ocr_text(rotsOf[k])]
        rows == [k \in 1..Len(rotsOf) |->
                    [page |-> k, text |-> best[k].text, reliability |-> best[k].reliability]]
        med == median(Reliabilities(rows))
    IN  IF mode = "per-page"
        THEN (IF med >= cutoff THEN AcceptPages(rows) ELSE Reject)
        ELSE (IF med >= cutoff THEN AcceptDoc(Join(Newline, Texts(rows)), med) ELSE Reject)

-----------------------------------------------------------------------------
(* PDF cascade (pass_pdf.py) *)

PASS_TXT_CUTOFF == Frac(80, 100)
PASS_OCR_A_CUTOFF == Frac(70, 100)
PASS_OCR_B_CUTOFF == Frac(60, 100)
BIGPDF_SIZE_LIMIT_MB == 50
BIGPDF_PAGE_LIMIT == 500

RECURSIVE MaxSeq(_)
MaxSeq(s) == IF s = <<>> THEN 0 ELSE Max2(Head(s), MaxSeq(Tail(s)))

InitialMode(size_mb, total_pages) ==
    IF size_mb >= BIGPDF_SIZE_LIMIT_MB \/ total_pages >= BIGPDF_PAGE_LIMIT
    THEN "per-page" ELSE "per-doc"

\* the pages list handed to the writer for an accepted payload
AcceptedPages(mode, payload) ==
    IF mode = "per-doc"
    THEN << <<1, payload.text>> >>
    ELSE [k \in 1..Len(payload.pages) |-> <<payload.pages[k].page, payload.pages[k].text>>]

\* the score handed to the writer for an accepted payload
AcceptedScore(mode, payload) ==
    IF mode = "per-doc" THEN payload.reliability
    ELSE IF "reliability" \in DOMAIN payload THEN payload.reliability
    ELSE MaxSeq(Reliabilities(payload.pages))

-----------------------------------------------------------------------------
(* The run tree and the inputs drawn for it *)

F(dirs, stem, ext) == Path(dirs, stem, ext)

\* the files a run directory may hold when it is handed over: .h.txt is a
\* hidden file, .g a hidden directory
Inputs ==
    { F(<<>>, "a", ".pdf"), F(<<>>, "a", ".txt"), F(<<>>, "b", ".docx"),
      F(<<>>, "c", ".tif"), F(<<>>, "d", ".xlsx"), F(<<>>, "n", ".wav"),
      F(<<"s">>, "d", ".xlsx"), F(<<"s">>, "e", ".txt"),
      F(<<>>, ".h", ".txt"), F(<<".g">>, "x", ".wav") }

\* out_dir = pdf.with_name(f"{pdf.stem}__portfolio")
PortfolioDir(f) == f.dirs \o << f.stem \o "__portfolio" >>

\* the attachment X.txt, extracted and renamed to <Parent>::<Child>
Child(f) == F(PortfolioDir(f), PathName(f) \o "::X", ".txt")

\* portfolio_manifest.csv beside the children
PortfolioManifest(f) == F(PortfolioDir(f), "portfolio_manifest", ".csv")

\* the parent renamed in place with a leading dot
HiddenInPlace(f) == F(f.dirs, "." \o f.stem, f.ext)

\* every file that can exist in a run tree
Universe ==
    Inputs \cup UNION { {Child(f), PortfolioManifest(f), HiddenInPlace(f)} :
                           f \in {g \in Inputs : g.ext = ".pdf"} }

NoFile == F(<<>>, "", "")

Hello == << Run("A", 5), Run("S", 1), Run("A", 5) >>

\* contents of a .txt input: empty, blank, "Hello World", a text whose document
\* block is a few bytes short of a chunk, a text larger than a chunk
TxtContents ==
    { Empty, Txt("S", 3), Hello,
      Txt("A", MAX_COMBINED_BYTES - 210), Txt("A", MAX_COMBINED_BYTES) }

\* text layers of a PDF page: none, clean, at the text cutoff, below it
LayerTexts ==
    { Empty, Txt("A", 50), << Run("A", 32), Run("P", 8) >>, << Run("A", 30), Run("P", 10) >> }

\* OCR outputs: nothing, "aaaa", "ab12!!", "!!!!"
OcrTexts == { Empty, Txt("A", 4), << Run("A", 4), Run("P", 2) >>, Txt("P", 4) }
RotTexts == { << Run("A", 4), Run("P", 2) >>, Txt("P", 4) }
VariantTexts == { Empty, Txt("A", 4), Txt("P", 4) }

\* text layers of a page of the PDF a DOC/DOCX is converted to: none, clean,
\* the four characters "aaaa"
FallbackLayerTexts == { Empty, Txt("A", 50), Txt("A", 4) }

\* native text of a DOC/DOCX: none, clean, below the cutoffs
DocTexts == { Empty, Txt("A", 50), << Run("A", 6), Run("P", 4) >> }

SizesMB == { 1, BIGPDF_SIZE_LIMIT_MB }

-----------------------------------------------------------------------------
(* Orchestrator helpers (process_run.py) *)

CSV_HEADER == << "filename", "page", "text", "method", "used_ocr", "reliability" >>
SUPPORTED_EXTS == { ".pdf", ".docx", ".doc", ".txt", ".tif", ".tiff", ".png", ".jpg", ".jpeg" }
UNSUPPORTED_EXTS == { ".xlsx" }
NOISE_DELETE_EXTS == { ".wav" }

\* path.suffix.lower(): the suffixes of the model are lower-case already
_route_ext(f) ==
    LET ext == f.ext
    IN  IF ext \in NOISE_DELETE_EXTS THEN "noise_delete"
        ELSE IF ext \notin SUPPORTED_EXTS /\ ext \notin UNSUPPORTED_EXTS THEN "unsupported"
        ELSE IF ext \in UNSUPPORTED_EXTS THEN "unsupported"
        ELSE IF ext = ".pdf" THEN "pdf"
        ELSE IF ext \in {".docx", ".doc"} THEN "doc"
        ELSE IF ext = ".txt" THEN "txt"
        ELSE IF ext \in {".tif", ".tiff", ".png", ".jpg", ".jpeg"} THEN "img"
        ELSE "unsupported"

PROCESSABLE == { "pdf", "doc", "txt", "img" }

\* _is_single_file_run looking through every directory of the run
_is_single_file_run_tree(files) ==
    LET entries == {f \in files : _route_ext(f) \in PROCESSABLE}
    IN  IF Cardinality(entries) = 1 THEN (CHOOSE f \in entries : TRUE).stem ELSE ""

\* the stem of the only processable file at the top level of the run, or "" (None)
_is_single_file_run(files) ==
    LET entries == {f \in files : f.dirs = <<>> /\ _route_ext(f) \in PROCESSABLE}
    IN  IF Cardinality(entries) = 1 THEN (CHOOSE f \in entries : TRUE).stem ELSE ""

_csv_path_for_run(run_name, single_file_name) ==
    IF single_file_name # "" THEN single_file_name ELSE run_name

\* review_manifest.csv after _append_review_manifest(out_dir, relpath, reason)
_append_review_manifest(man, relpath, reason) ==
    (IF man = <<>> THEN << <<"filename", "reason">> >> ELSE man) \o << <<relpath, reason>> >>

\* What common.move_to_manual may meet: os.replace works; os.replace fails and the
\* copy works, with the source then removed or not; the copy fails too; the final
\* append to the review manifest fails.
MoveIO == {"ok", "copy", "copy_keep", "copy_fail", "manifest_fail"}

\* common.move_to_manual(file_path, out_dir, reason) on (tree, mr, manifest)
move_to_manual(st, f, reason, io) ==
    LET base == PathName(f)
        stored == [k \in DOMAIN st.mr \cup {base} |-> IF k = base THEN f ELSE st.mr[k]]
        mr2 == IF io = "copy_fail" THEN st.mr ELSE stored
        tree2 == IF io \in {"copy_keep", "copy_fail"} THEN st.tree ELSE st.tree \ {f}
        man2 == IF io = "manifest_fail" THEN st.manifest
                ELSE Append(st.manifest, <<base, reason, "">>)
    IN  [tree |-> tree2, mr |-> mr2, manifest |-> man2,
         raised |-> io \in {"copy_fail", "manifest_fail"}]

-----------------------------------------------------------------------------
(* State machine: initial state and the orchestrator's start *)

NoCtx == [kind |-> "none"]

Files == [txtFiles |-> txtFiles, chunks |-> chunks, catalog |-> catalog,
          csvStem |-> csvStem, raised |-> FALSE]

\* an injected failure is spent from the run's budget
Spend(io) == /\ (io = "ok" \/ faults < MaxFaults)
             /\ faults' = IF io = "ok" THEN faults ELSE faults + 1

\* no pre-pass has run: parents are the portfolios the pre-pass has met that
\* are still in the tree, under the names they have now
NotScanned == [scanned |-> FALSE, rescanned |-> FALSE, hidden |-> {}, in_place |-> {},
               parents |-> {}]

IsReviewDir(d) == d # <<>> /\ d[Len(d)] \in {"Mandatory Review", "mandatory review"}

Init ==
    /\ pc = "start" /\ step = "" /\ cur = NoFile /\ rc = 0 /\ ctx = NoCtx
    /\ tree \in {S \in SUBSET Inputs : /\ Cardinality(S) >= 1 /\ Cardinality(S) <= MaxFiles
                                       /\ Cardinality({f \in S : f.ext = ".pdf"}) <= MaxPdfs}
    /\ dirsLeft = {} /\ todo = {} /\ handled = <<>>
    /\ catalog = <<>> /\ csvStem = ""
    /\ txtFiles = <<>> /\ chunks = <<>> /\ manifest = <<>> /\ mr = <<>>
    /\ disp = [f \in Universe |-> "none"]
    /\ passLog = <<>>
    /\ faults = 0
    /\ portfolio = NotScanned

\* a name that begins with "."
IsHiddenName(name) == Len(name) > 0 /\ SubSeq(name, 1, 1) = "."

\* "Walk all PDFs (skip hidden dirs)": the files whose name ends in .pdf, hidden
\* ones too, outside directories whose name begins with "."
ListedPdfs(files) ==
    {f \in files : /\ f.ext = ".pdf"
                   /\ \A k \in 1..Len(f.dirs) : ~IsHiddenName(f.dirs[k])}

\* What the pre-pass may meet at a portfolio: the parent is moved to the work
\* directory; too little space or a failing pdfdetach (nothing is extracted); the
\* move fails and the parent is renamed in place; both fail and the parent stays.
ScanIO == {"moved", "no_space", "detach_fail", "in_place", "left"}

\* portfolio_unpack.main over the input root, before the orchestrator starts:
\* every PDF outside hidden directories is listed; those with attachments are
\* the portfolios, whose attachments are extracted and renamed, the manifest
\* written, the parent neutralized (a scan that finds no portfolio changes nothing)
PortfolioScan ==
    /\ pc = "start" /\ ~portfolio.scanned
    /\ \E io \in ScanIO, parents \in SUBSET ListedPdfs(tree) :
          LET unpacked == IF io \in {"no_space", "detach_fail"} THEN {} ELSE parents
              moved == IF io = "moved" THEN unpacked ELSE {}
              renamed == IF io = "in_place" THEN unpacked ELSE {}
          IN  /\ parents # {}
              /\ Spend(IF io = "moved" THEN "ok" ELSE io)
              /\ tree' = ((tree \ moved) \ renamed)
                         \cup {Child(f) : f \in unpacked}
                         \cup {PortfolioManifest(f) : f \in unpacked}
                         \cup {HiddenInPlace(f) : f \in renamed}
              /\ portfolio' = [scanned |-> TRUE, rescanned |-> FALSE,
                                hidden |-> moved, in_place |-> renamed,
                                parents |-> ((parents \ moved) \ renamed)
                                            \cup {HiddenInPlace(f) : f \in renamed}]
    /\ UNCHANGED <<pc, step, cur, rc, ctx, dirsLeft, todo, handled, catalog, csvStem,
                   txtFiles, chunks, manifest, mr, disp, passLog>>

\* portfolio_unpack.main run once more over the same input root: the PDFs it
\* lists that still have their attachments are unpacked again
PortfolioRescan ==
    /\ pc = "start" /\ portfolio.scanned /\ ~portfolio.rescanned
    /\ \E io \in ScanIO :
          LET parents == ListedPdfs(tree) \cap portfolio.parents
              unpacked == IF io \in {"no_space", "detach_fail"} THEN {} ELSE parents
              moved == IF io = "moved" THEN unpacked ELSE {}
              renamed == IF io = "in_place" THEN unpacked ELSE {}
          IN  /\ io = "moved" \/ parents # {}
              /\ Spend(IF io = "moved" THEN "ok" ELSE io)
              /\ tree' = ((tree \ moved) \ renamed)
                         \cup {Child(f) : f \in unpacked}
                         \cup {PortfolioManifest(f) : f \in unpacked}
                         \cup {HiddenInPlace(f) : f \in renamed}
              /\ portfolio' = [portfolio EXCEPT
                                  !.rescanned = TRUE,
                                  !.parents = ((parents \ moved) \ renamed)
                                              \cup {HiddenInPlace(f) : f \in renamed}]
    /\ UNCHANGED <<pc, step, cur, rc, ctx, dirsLeft, todo, handled, catalog, csvStem,
                   txtFiles, chunks, manifest, mr, disp, passLog>>

\* the pre-pass run twice, on its own
NextRescan == PortfolioScan \/ PortfolioRescan

SpecRescan == Init /\ [][NextRescan]_vars

\* process_run.main up to "Run start": the catalog is named and its header written
Start ==
    /\ pc = "start"
    /\ csvStem' = _csv_path_for_run(RunName, _is_single_file_run(tree))
    /\ catalog' = << CSV_HEADER >>
    /\ dirsLeft' = {d \in {f.dirs : f \in tree} \cup {<<>>} : ~IsReviewDir(d)}
    /\ pc' = "walk"
    /\ UNCHANGED <<portfolio, step, cur, rc, ctx, tree, todo, handled, txtFiles, chunks, manifest,
                   mr, disp, passLog, faults>>

\* os.walk yields the next directory, top down, with the files it lists there
ListDir ==
    /\ pc = "walk" /\ todo = {} /\ dirsLeft # {}
    /\ \E d \in dirsLeft :
          /\ d = <<>> \/ <<>> \notin dirsLeft
          /\ todo' = {f \in tree : f.dirs = d}
          /\ dirsLeft' = dirsLeft \ {d}
    /\ UNCHANGED <<portfolio, pc, step, cur, rc, ctx, tree, handled, catalog, csvStem, txtFiles,
                   chunks, manifest, mr, disp, passLog, faults>>

\* _delete_path without the unlink
_delete_path_kept(files, f, io) == files

\* _delete_path: the unlink, whose failure is swallowed
_delete_path(files, f, io) == IF io = "ok" THEN files \ {f} ELSE files

\* the loop body for a noise file
HandleNoise ==
    /\ pc = "walk"
    /\ \E f \in todo : \E io \in {"ok", "unlink_fail"} :
          /\ _route_ext(f) = "noise_delete"
          /\ Spend(io)
          /\ tree' = _delete_path(tree, f, io)
          /\ disp' = [disp EXCEPT ![f] = "delete"]
          /\ todo' = todo \ {f}
          /\ handled' = Append(handled, f)
    /\ UNCHANGED <<portfolio, pc, step, cur, rc, ctx, dirsLeft, catalog, csvStem, txtFiles, chunks,
                   manifest, mr, passLog>>

QuarantineIO == MoveIO \cup {"append_fail"}

\* _append_review_manifest, then common.move_to_manual; an exception of either
\* leaves main
Quarantine(f, reason, io) ==
    LET man1 == _append_review_manifest(manifest, RelToRun(f), reason)
        m == move_to_manual([tree |-> tree, mr |-> mr, manifest |-> man1], f, reason, io)
    IN  IF io = "append_fail"
        THEN /\ pc' = "crashed"
             /\ UNCHANGED <<tree, mr, manifest>>
        ELSE /\ tree' = m.tree /\ mr' = m.mr /\ manifest' = m.manifest
             /\ pc' = IF m.raised THEN "crashed" ELSE "walk"

\* the loop body for an unsupported file
HandleUnsupported ==
    /\ pc = "walk"
    /\ \E f \in todo : \E io \in QuarantineIO :
          /\ _route_ext(f) = "unsupported"
          /\ Spend(io)
          /\ Quarantine(f, "unsupported", io)
          /\ disp' = [disp EXCEPT ![f] = "quarantine"]
          /\ todo' = todo \ {f}
          /\ handled' = Append(handled, f)
    /\ UNCHANGED <<portfolio, step, cur, rc, ctx, dirsLeft, catalog, csvStem, txtFiles, chunks, passLog>>

\* the loop body for a processable file: the pass script is started
Dispatch ==
    /\ pc = "walk"
    /\ \E f \in todo :
          /\ _route_ext(f) \in PROCESSABLE
          /\ cur' = f
          /\ step' = _route_ext(f)
          /\ todo' = todo \ {f}
          /\ handled' = Append(handled, f)
    /\ pc' = "pass"
    /\ passLog' = <<>>
    /\ ctx' = NoCtx
    /\ UNCHANGED <<portfolio, rc, tree, dirsLeft, catalog, csvStem, txtFiles, chunks, manifest, mr,
                   disp, faults>>

\* rc == 0: the source is deleted
DeleteSource ==
    /\ pc = "returned" /\ rc = 0
    /\ \E io \in {"ok", "unlink_fail"} :
          /\ Spend(io)
          /\ tree' = _delete_path(tree, cur, io)
    /\ disp' = [disp EXCEPT ![cur] = "delete"]
    /\ pc' = "walk" /\ cur' = NoFile /\ passLog' = <<>> /\ ctx' = NoCtx
    /\ UNCHANGED <<portfolio, step, rc, dirsLeft, todo, handled, catalog, csvStem, txtFiles, chunks,
                   manifest, mr>>

\* rc != 0: the source goes to Mandatory Review with the reason "pass rc=<n>"
QuarantineSource ==
    /\ pc = "returned" /\ rc # 0
    /\ \E io \in QuarantineIO :
          /\ Spend(io)
          /\ Quarantine(cur, "pass rc=" \o ToString(rc), io)
    /\ disp' = [disp EXCEPT ![cur] = "quarantine"]
    /\ cur' = NoFile /\ passLog' = <<>> /\ ctx' = NoCtx
    /\ UNCHANGED <<portfolio, step, rc, dirsLeft, todo, handled, catalog, csvStem, txtFiles, chunks>>

\* the walk is over: "Run end", exit 0
Finish ==
    /\ pc = "walk" /\ todo = {} /\ dirsLeft = {}
    /\ pc' = "done"
    /\ UNCHANGED <<portfolio, step, cur, rc, ctx, tree, dirsLeft, todo, handled, catalog, csvStem,
                   txtFiles, chunks, manifest, mr, disp, passLog, faults>>

-----------------------------------------------------------------------------
(* Pass scripts.  Each runs as a child process of the orchestrator; sys.exit *)
(* or an uncaught exception (exit code 1) ends it.                           *)

\* the pass script ends with this exit code
Exit(code) == pc' = "returned" /\ rc' = code /\ step' = ""

\* the files after a call of write_result
Written(w) == txtFiles' = w.txtFiles /\ chunks' = w.chunks /\ catalog' = w.catalog

OrchestratorIdle ==
    UNCHANGED <<cur, tree, dirsLeft, todo, handled, csvStem, manifest, mr, disp, portfolio>>

\* pass_txt.main
TxtPass ==
    /\ pc = "pass" /\ step = "txt"
    /\ \/ /\ Spend("open_fail")
          /\ passLog' = << "TXT open failed" >>
          /\ Exit(1)
          /\ UNCHANGED <<txtFiles, chunks, catalog>>
       \/ \E text \in TxtContents :
             LET rel == score_reliability(text)
                 pages == IF HasNonWs(text) THEN << <<1, text>> >> ELSE << >>
                 status == IF pages # << >> THEN "OK" ELSE "ERROR"
             IN  \E io \in WriterFaults(pages) :
                    LET w == write_result(Files, cur, pages, "txt", rel, status, FALSE, io)
                    IN  /\ Spend(io)
                        /\ Written(w)
                        /\ passLog' = IF w.raised THEN << >>
                                      ELSE IF status = "OK" THEN << "TXT file accepted" >>
                                      ELSE << "TXT file had no usable text" >>
                        /\ Exit(IF w.raised THEN 1 ELSE 0)
    /\ UNCHANGED ctx
    /\ OrchestratorIdle

\* pass_img._run_ocr_variants: the better of the variants' OCR outputs
_run_ocr_variants(variants) == BestFrom(variants, Empty, 0)

\* common.CsvWriter.row for frame idx (0-based) of an image with this many frames
ImgRow(f, frames, idx, best) ==
    << PathName(f),
       IF frames > 1 THEN ToString(idx + 1) ELSE "-",
       best.text,
       "img_ocr",
       "true",
       Fmt2(best.reliability) >>

\* pass_img.main
ImgPass ==
    /\ pc = "pass" /\ step = "img"
    /\ \/ \E io \in {"open_csv_fail", "open_img_fail"} :
             /\ Spend(io)
             /\ passLog' = << "IMG open failed" >>
             /\ Exit(1)
             /\ UNCHANGED catalog
       \/ \E frames \in 1..MaxPages :
             \E variants \in [1..frames -> VariantTexts \X VariantTexts] :
                /\ catalog' = catalog \o
                      [k \in 1..frames |->
                          ImgRow(cur, frames, k - 1, _run_ocr_variants(variants[k]))]
                /\ passLog' = << "IMG file accepted" >>
                /\ Exit(0)
                /\ UNCHANGED faults
    /\ UNCHANGED <<ctx, txtFiles, chunks>>
    /\ OrchestratorIdle

\* the mode left as it is
PromoteModeKept(mode) == mode

\* "v0.1.4: switch to per-page once OCR is required"
PromoteMode(mode) == IF mode = "per-doc" THEN "per-page" ELSE mode

\* pass_pdf.main, a pass accepted: the writer is called and the script exits.
\* seen: what the accepting pass read from the PDF, page by page
PdfAccept(mode, payload, pass_used, used_ocr, log, seen, size_mb) ==
    LET pages == AcceptedPages(mode, payload)
        score == AcceptedScore(mode, payload)
    IN  \E io \in WriterFaults(pages) :
           LET w == write_result(Files, cur, pages, pass_used, score, "OK", used_ocr, io)
           IN  /\ Spend(io)
               /\ Written(w)
               /\ passLog' = passLog \o log
               /\ Exit(IF w.raised THEN 1 ELSE 0)
               /\ ctx' = [total_pages |-> Len(seen), mode |-> mode, seen |-> seen,
                          size_mb |-> size_mb]

\* what _get_free_mb(WORK_DIR) may return: unknown (-1), nothing free, just
\* under 1 GiB, 1 GiB
FreeMB == {-1, 0, 1023, 1024}

\* the guard with the unknown amount taken for too little
LowDiskOrUnknown(free_mb) == free_mb < 1024

\* "if free_mb >= 0 and free_mb < 1024"
LowDisk(free_mb) == free_mb >= 0 /\ free_mb < 1024

\* pass_pdf.main: page count, mode, and the text-layer pass; on an escalation
\* free_mb is what the guard before OCR is going to read
PdfTxt ==
    /\ pc = "pass" /\ step = "pdf"
    /\ \/ /\ Spend("page_count_fail")
          /\ passLog' = << "PDF open failed" >>
          /\ Exit(1)
          /\ UNCHANGED <<ctx, txtFiles, chunks, catalog>>
       \/ \E total_pages \in 1..MaxPages : \E size_mb \in SizesMB :
          \E layers \in [1..total_pages -> LayerTexts] : \E raises \in {"ok", "txt_error"} :
             LET mode == InitialMode(size_mb, total_pages)
                 r == IF raises = "ok" THEN pass_pdf_txt_run(layers, mode, PASS_TXT_CUTOFF)
                      ELSE Reject
             IN  IF r.ok
                 THEN PdfAccept(mode, r.payload, "pdf_text", FALSE,
                                << "PDF start", "TXT begin", "TXT accept" >>, layers, size_mb)
                 ELSE \E free_mb \in FreeMB :
                      LET cost == (IF raises = "ok" THEN 0 ELSE 1)
                                  + (IF LowDisk(free_mb) THEN 1 ELSE 0)
                      IN
                      /\ faults + cost <= MaxFaults
                      /\ faults' = faults + cost
                      /\ ctx' = [total_pages |-> total_pages, mode |-> mode,
                                 size_mb |-> size_mb, free_mb |-> free_mb]
                      /\ passLog' = << "PDF start", "TXT begin", "TXT escalate" >>
                      /\ step' = "pdf_ocr_a"
                      /\ UNCHANGED <<pc, rc, txtFiles, chunks, catalog>>
    /\ OrchestratorIdle

\* pass_pdf.main: the switch to per-page, the free-space guard, and OCR-A
PdfOcrA ==
    /\ pc = "pass" /\ step = "pdf_ocr_a"
    /\ LET mode == PromoteMode(ctx.mode)
       IN  IF LowDisk(ctx.free_mb)
           THEN
              /\ passLog' = passLog \o << "LOW_DISK" >>
              /\ Exit(1)
              /\ UNCHANGED <<ctx, txtFiles, chunks, catalog, faults>>
           ELSE \E ocr \in [1..ctx.total_pages -> OcrTexts] :
                 LET r == pass_pdf_ocr_a_run(ocr, mode, PASS_OCR_A_CUTOFF)
                 IN  IF r.ok
                     THEN PdfAccept(mode, r.payload, "pdf_ocr_a", TRUE,
                                    << "OCR A begin", "OCR A accept" >>, ocr, ctx.size_mb)
                     ELSE /\ ctx' = [total_pages |-> ctx.total_pages, mode |-> mode,
                                     size_mb |-> ctx.size_mb]
                          /\ passLog' = passLog \o << "OCR A begin", "OCR A escalate" >>
                          /\ step' = "pdf_ocr_b"
                          /\ UNCHANGED <<pc, rc, txtFiles, chunks, catalog, faults>>
    /\ OrchestratorIdle

\* pass_pdf.main: OCR-B, and the ERROR row when no pass accepted
PdfOcrB ==
    /\ pc = "pass" /\ step = "pdf_ocr_b"
    /\ \E rotsOf \in [1..ctx.total_pages -> [1..Len(ROTATIONS) -> RotTexts]] :
          LET r == pass_pdf_ocr_b_run(rotsOf, ctx.mode, PASS_OCR_B_CUTOFF)
          IN  IF r.ok
              THEN PdfAccept(ctx.mode, r.payload, "pdf_ocr_b", TRUE,
                             << "OCR B begin", "OCR B accept" >>, rotsOf, ctx.size_mb)
              ELSE \E io \in WriterFaults(<< >>) :
                      LET w == write_result(Files, cur, << >>, "pdf_ocr_b", 0, "ERROR", TRUE, io)
                      IN  /\ Spend(io)
                          /\ Written(w)
                          /\ passLog' = passLog \o << "OCR B begin", "PDF failed" >>
                          /\ Exit(1)
                          /\ UNCHANGED ctx
    /\ OrchestratorIdle

-----------------------------------------------------------------------------
(* DOC/DOCX pass (pass_doc.py) *)

PASS_DOC_CUTOFF == Frac(75, 100)
PASS_DOCX_CUTOFF == Frac(70, 100)

DocMethod(f) == IF f.ext = ".docx" THEN "docx_text" ELSE "doc_text"
DocCutoff(f) == IF f.ext = ".docx" THEN PASS_DOCX_CUTOFF ELSE PASS_DOC_CUTOFF

\* write_result and exit, as pass_doc.main does at each of its ends; seen is
\* what the pass has read by then
DocWrite(pages, pass_used, score, status, code, log, seen) ==
    \E io \in WriterFaults(pages) :
       LET w == write_result(Files, cur, pages, pass_used, score, status, FALSE, io)
       IN  /\ Spend(io)
           /\ Written(w)
           /\ passLog' = passLog \o log
           /\ Exit(IF w.raised THEN 1 ELSE code)
           /\ ctx' = seen

\* pass_doc.main: native extraction and its gate
DocNative ==
    /\ pc = "pass" /\ step = "doc"
    /\ \/ DocWrite(<< >>, "doc_extract_error", 0, "ERROR", 1,
                   << "DOC open/extract failed" >>, ctx)
       \/ \E text \in DocTexts :
             LET rel == score_reliability(text)
             IN  IF HasNonWs(text) /\ rel >= DocCutoff(cur)
                 THEN DocWrite(<< <<1, text>> >>, DocMethod(cur), rel, "OK", 0,
                               << "DOC accept (native)" >>, ctx)
                 ELSE /\ ctx' = [method |-> DocMethod(cur), rel |-> rel]
                      /\ passLog' = << "DOC/DOCX below cutoff or empty" >>
                      /\ step' = "doc_fallback"
                      /\ UNCHANGED <<pc, rc, txtFiles, chunks, catalog, faults>>
    /\ OrchestratorIdle

\* the text _fallback_via_pdf gets from the converted PDF's text layers
FallbackText(layers) ==
    LET r == pass_pdf_txt_run(layers, "per-doc", 0)
    IN  IF r.ok THEN r.payload.text ELSE Empty

\* pass_doc.main: _fallback_via_pdf, and the ERROR row when it fails
DocFallback ==
    /\ pc = "pass" /\ step = "doc_fallback"
    /\ \/ DocWrite(<< >>, ctx.method, ctx.rel, "ERROR", 1,
                   << "DOC->PDF conversion failed", "DOC/DOCX fallback failed" >>, ctx)
       \/ \E total_pages \in 1..MaxPages :
          \E layers \in [1..total_pages -> FallbackLayerTexts] :
             LET text == FallbackText(layers)
                 seen == [method |-> ctx.method, rel |-> ctx.rel, seen |-> layers]
             IN  IF HasNonWs(text)
                 THEN DocWrite(<< <<1, text>> >>, "doc_pdf_text", score_reliability(text),
                               "OK", 0, << "PDF TXT fallback success" >>, seen)
                 ELSE DocWrite(<< >>, ctx.method, ctx.rel, "ERROR", 1,
                               << "PDF TXT fallback produced no usable text",
                                  "DOC/DOCX fallback failed" >>, seen)
    /\ OrchestratorIdle

-----------------------------------------------------------------------------
(* Specification *)

Next ==
    \/ PortfolioScan \/ Start \/ ListDir \/ HandleNoise \/ HandleUnsupported \/ Dispatch
    \/ TxtPass \/ ImgPass \/ PdfTxt \/ PdfOcrA \/ PdfOcrB \/ DocNative \/ DocFallback
    \/ DeleteSource \/ QuarantineSource \/ Finish

Spec == Init /\ [][Next]_vars

-----------------------------------------------------------------------------
(* Reading the artifacts *)

\* the catalog's lines after the header
DataRows == 2..Len(catalog)

\* a row as write_result writes it (12 fields), as against CsvWriter.row (6 fields)
IsWriterRow(row) == Len(row) = 12

\* the catalog rows naming the file: by absolute path (original_file), or by name
\* (CsvWriter's filename)
RowsFor(f) ==
    {i \in DataRows : \/ catalog[i][1] = AbsStr(AbsPath(f))
                      \/ Len(catalog[i]) = 6 /\ catalog[i][1] = PathName(f)}

\* the source file is gone from the run tree because the orchestrator deleted it
Deleted(f) == disp[f] = "delete" /\ f \notin tree

\* the file sits under <output>/Mandatory Review/
InReview(f) == PathName(f) \in DOMAIN mr /\ mr[PathName(f)] = f

\* the document blocks of a chunk, counted by their separators
ChunkDocs(n) ==
    Cardinality({i \in 1..Len(chunks[n]) : IsLit(chunks[n][i]) /\ chunks[n][i] = DOCUMENT_BREAK[1]})

\* the page markers of a text file, in the order they stand in it
Markers(lines) ==
    SelectSeq(lines, LAMBDA l : IsLit(l) /\ \E k \in 1..(MaxPages + 1) : l.lit = PageMarker(k))

-----------------------------------------------------------------------------
(* Catalog and writer contracts *)

\* C1: when a pass returns, the catalog holds exactly one row naming the file the
\* orchestrator dispatched to it, never zero and never two or more.
C1_OneRowPerDispatchedFile ==
    pc = "returned" => Cardinality(RowsFor(cur)) = 1

\* C2: a processable source file is never deleted while the catalog holds no row
\* for it.
C2_DeleteOnlyAfterRow ==
    \A f \in Universe :
       (_route_ext(f) \in PROCESSABLE /\ Deleted(f)) => RowsFor(f) # {}

\* C3: every combined chunk has at most max_bytes bytes, or holds exactly one
\* document block and that block is larger than max_bytes.
C3_ChunkWithinMaxBytes ==
    \A n \in DOMAIN chunks :
       \/ BlockBytes(chunks[n]) <= MAX_COMBINED_BYTES
       \/ /\ ChunkDocs(n) = 1
          /\ BlockBytes(chunks[n]) - BlockBytes(DOCUMENT_BREAK) > MAX_COMBINED_BYTES

\* C4: for every catalog row with status OK and a non-empty txt_relative_path the
\* text file exists, its first line names that row's original file, and it holds
\* exactly `pages` page markers numbered 1, 2, ...
C4_OkRowHasItsTextFile ==
    \A i \in DataRows :
       LET row == catalog[i]
       IN  (IsWriterRow(row) /\ row[9] = "OK" /\ row[4] # "") =>
              /\ row[4] \in DOMAIN txtFiles
              /\ txtFiles[row[4]][1] = Lit("# original_file: " \o row[1])
              /\ LET m == Markers(txtFiles[row[4]])
                 IN  /\ ToString(Len(m)) = row[5]
                     /\ \A k \in 1..Len(m) : m[k].lit = PageMarker(k)

\* C5: write_result never raises and appends one catalog row whatever happens to
\* the text file: when creating its directory or writing it fails, the row has an
\* empty txt_relative_path and the caller's status.
C5_WriteResultNeverRaises ==
    pc = "pass" =>
       \A io \in {"ok", "mkdir_txt", "write_txt"} :
          LET w == write_result(Files, cur, << <<1, Hello>> >>, "txt",
                                score_reliability(Hello), "OK", FALSE, io)
              row == w.catalog[Len(w.catalog)]
          IN  /\ ~w.raised
              /\ Len(w.catalog) = Len(catalog) + 1
              /\ io # "ok" => row[4] = "" /\ row[9] = "OK"

-----------------------------------------------------------------------------
(* Combined chunks against the catalog *)

\* the input file a catalog row or a block header names
FileNamed(name) ==
    CHOOSE f \in Universe : name = AbsStr(AbsPath(f)) \/ name = PathName(f)

\* the row records text: status OK from write_result, OCR text from CsvWriter
RowHasText(row) == IF IsWriterRow(row) THEN row[9] = "OK" ELSE HasNonWs(row[3])

\* consecutive repeats removed: the frames of one image are one document
RECURSIVE Dedup(_)
Dedup(s) ==
    IF Len(s) <= 1 THEN s
    ELSE IF s[1] = s[2] THEN Dedup(Tail(s)) ELSE <<s[1]>> \o Dedup(Tail(s))

\* the documents with text, in catalog order
CatalogDocs ==
    LET rows == SelectSeq(SubSeq(catalog, 2, Len(catalog)), RowHasText)
    IN  Dedup([i \in 1..Len(rows) |-> FileNamed(rows[i][1])])

\* the lines of chunks 001..n read in sequence
RECURSIVE ChunkLines(_)
ChunkLines(n) == IF n = 0 THEN << >> ELSE ChunkLines(n - 1) \o chunks[n]

IsBlockHeader(l) ==
    IsLit(l) /\ \E f \in Universe : l.lit = "# original_file: " \o AbsStr(AbsPath(f))

\* the documents of the combined chunks, in the order their blocks stand there
ChunkFiles ==
    LET hs == SelectSeq(ChunkLines(Cardinality(DOMAIN chunks)), IsBlockHeader)
    IN  [i \in 1..Len(hs) |->
            CHOOSE f \in Universe : hs[i].lit = "# original_file: " \o AbsStr(AbsPath(f))]

\* C6: in a run without I/O failures, the documents whose rows record text are the
\* documents of the combined chunks, each once, in catalog order.
C6_ChunksFollowCatalog ==
    faults = 0 => ChunkFiles = CatalogDocs

-----------------------------------------------------------------------------
(* Terminal dispositions *)

\* C7: at the end of a run without I/O failures every file the walk handled was
\* handled once, is gone from the run tree, and is either deleted or present
\* under Mandatory Review, not both and not neither.
C7_OneTerminalDisposition ==
    (pc = "done" /\ faults = 0) =>
       /\ \A i, j \in 1..Len(handled) : handled[i] = handled[j] => i = j
       /\ \A i \in 1..Len(handled) :
             LET f == handled[i]
             IN  /\ f \notin tree
                 /\ Deleted(f) <=> ~InReview(f)

\* the rows of the file record no usable text: status ERROR, or no frame with text
NoUsableText(f) ==
    /\ RowsFor(f) # {}
    /\ \A i \in RowsFor(f) :
          IF IsWriterRow(catalog[i]) THEN catalog[i][9] = "ERROR" ELSE ~HasNonWs(catalog[i][3])

\* the review manifest has an entry for the file
InManifest(f) ==
    \E j \in 1..Len(manifest) : manifest[j][1] \in {RelToRun(f), PathName(f)}

\* C8: in a run without I/O failures, a file whose pass produced no usable text is,
\* once the orchestrator has disposed of it, quarantined with a manifest entry and
\* not deleted.
C8_NoTextMeansQuarantine ==
    faults = 0 =>
       \A f \in Universe :
          (NoUsableText(f) /\ disp[f] # "none") =>
             /\ disp[f] = "quarantine"
             /\ InManifest(f)
             /\ ~Deleted(f)

\* C9: the catalog's header and every row appended to it have exactly 12 fields.
C9_TwelveFields ==
    \A i \in 1..Len(catalog) : Len(catalog[i]) = 12

-----------------------------------------------------------------------------
(* The PDF cascade *)

\* where the line stands in the pass's log
Pos(line) == {i \in 1..Len(passLog) : passLog[i] = line}

\* every occurrence of `later` has an occurrence of `earlier` before it
Before(earlier, later) == \A i \in Pos(later) : \E j \in Pos(earlier) : j < i

PassOf(line) ==
    CASE line = "TXT accept" -> "pdf_text"
      [] line = "OCR A accept" -> "pdf_ocr_a"
      [] line = "OCR B accept" -> "pdf_ocr_b"
      [] OTHER -> "none"

Accepted == passLog # << >> /\ PassOf(passLog[Len(passLog)]) # "none"

\* C10: the PDF cascade runs text-layer, OCR-A, OCR-B in this order, each pass
\* only after the one before it did not accept and at most once, nothing after
\* an accept; the row of the file carries the accepting pass as pass_used, and
\* used_ocr is true exactly when pass_used is not pdf_text.
C10_CascadeOrder ==
    (cur.ext = ".pdf" /\ pc \in {"pass", "returned"}) =>
       /\ Before("TXT begin", "TXT escalate")
       /\ Before("TXT escalate", "OCR A begin")
       /\ Before("OCR A begin", "OCR A escalate")
       /\ Before("OCR A escalate", "OCR B begin")
       /\ \A l \in {"TXT begin", "OCR A begin", "OCR B begin"} : Cardinality(Pos(l)) <= 1
       /\ \A i \in 1..Len(passLog) : PassOf(passLog[i]) # "none" => i = Len(passLog)
       /\ step = "pdf_ocr_a" => Pos("TXT escalate") # {}
       /\ step = "pdf_ocr_b" => Pos("OCR A escalate") # {}
       /\ \A i \in RowsFor(cur) :
             LET row == catalog[i]
             IN  /\ IsWriterRow(row)
                 /\ row[7] \in {"pdf_text", "pdf_ocr_a", "pdf_ocr_b"}
                 /\ row[10] = (IF row[7] = "pdf_text" THEN "false" ELSE "true")
                 /\ row[9] = "OK" <=> Accepted
                 /\ Accepted => row[7] = PassOf(passLog[Len(passLog)])

\* OCR-A accepted a PDF after the text layer was rejected, and the row says so
C10_Witness ==
    /\ pc = "returned" /\ cur.ext = ".pdf"
    /\ passLog = << "PDF start", "TXT begin", "TXT escalate", "OCR A begin", "OCR A accept" >>
    /\ \E i \in RowsFor(cur) : catalog[i][7] = "pdf_ocr_a" /\ catalog[i][10] = "true"

-----------------------------------------------------------------------------
(* Scores and cutoffs of the PDF passes *)

\* the pass that accepted the PDF whose pass has returned
AcceptedPass == PassOf(passLog[Len(passLog)])

\* the per-page reliabilities the accepting pass computed from what it read
AcceptedReliabilities ==
    IF AcceptedPass = "pdf_text" THEN Reliabilities(_per_page(ctx.seen))
    ELSE IF AcceptedPass = "pdf_ocr_a"
    THEN [k \in 1..Len(ctx.seen) |-> score_reliability(ctx.seen[k])]
    ELSE [k \in 1..Len(ctx.seen) |-> _best_ocr_text(ctx.seen[k]).reliability]

\* a PDF pass has accepted and returned
PdfAccepted == pc = "returned" /\ cur.ext = ".pdf" /\ Accepted

\* C11: when a PDF pass accepts, the score of the file's catalog row is the median
\* of the accepting pass's per-page reliabilities, in either mode.
C11_ScoreIsMedian ==
    PdfAccepted =>
       \A i \in RowsFor(cur) : catalog[i][8] = Fmt2(median(AcceptedReliabilities))

\* the reliabilities of the document's pages for the accepting pass: of each
\* page's own text layer, of each page's OCR output, of each page's best rotation
PageReliabilities ==
    IF AcceptedPass = "pdf_text"
    THEN [k \in 1..Len(ctx.seen) |-> score_reliability(ctx.seen[k])]
    ELSE AcceptedReliabilities

CutoffOf(pass_used) ==
    CASE pass_used = "pdf_text" -> PASS_TXT_CUTOFF
      [] pass_used = "pdf_ocr_a" -> PASS_OCR_A_CUTOFF
      [] pass_used = "pdf_ocr_b" -> PASS_OCR_B_CUTOFF

\* C12: a PDF pass accepts, and an OK row with its pass_used is written, only if
\* the median of the document's per-page reliabilities for that pass is at least
\* the pass's cutoff.
C12_AcceptOnlyAboveCutoff ==
    PdfAccepted => median(PageReliabilities) >= CutoffOf(AcceptedPass)

\* C13: a PDF with N pages accepted by the text-layer pass has a text file with
\* N page markers, in per-doc mode too.
C13_MarkerPerPdfPage ==
    (PdfAccepted /\ AcceptedPass = "pdf_text") =>
       \A i \in RowsFor(cur) :
          catalog[i][4] # "" =>
             /\ catalog[i][4] \in DOMAIN txtFiles
             /\ Len(Markers(txtFiles[catalog[i][4]])) = ctx.total_pages


-----------------------------------------------------------------------------
(* Hidden files and portfolio parents.                                       *)

\* the file's own name, or one of the directories above it, begins with "."
IsHidden(f) == \/ IsHiddenName(PathName(f))
               \/ \E k \in 1..Len(f.dirs) : IsHiddenName(f.dirs[k])

\* C14: the walk never dispatches, deletes or quarantines a file whose name
\* begins with ".", and never descends into a directory whose name begins
\* with "."; stated for runs without any I/O failure.
C14_HiddenNeverHandled ==
    faults = 0 => \A i \in 1..Len(handled) : ~IsHidden(handled[i])


\* the parents the pre-pass neutralized: moved to <work_dir>/portfolio_hidden/
\* or renamed in place with a leading "."
Neutralized == portfolio.hidden \cup portfolio.in_place

\* C15: once the pre-pass has neutralized a portfolio parent, the orchestrator
\* never writes a catalog row for the parent, under its old name or its hidden
\* one; the rows belong to its children.
C15_NoRowForNeutralizedParent ==
    \A f \in Neutralized : RowsFor(f) = {} /\ RowsFor(HiddenInPlace(f)) = {}


-----------------------------------------------------------------------------
(* The end of the run.                                                       *)

\* C16: process_run always comes to "Run end" and exit code 0; no failing pass,
\* no file that cannot be moved to Mandatory Review and no manifest that cannot
\* be appended makes main leave by an exception.
C16_NeverAborts == pc # "crashed"


-----------------------------------------------------------------------------
(* The order of the catalog.                                                 *)

\* the names of the files of Universe as sorted() orders them
SortedNames ==
    << ".a.pdf", ".h.txt", "a.pdf", "a.pdf::X.txt", "a.txt", "b.docx", "c.tif",
       "d.xlsx", "e.txt", "n.wav", "portfolio_manifest.csv", "x.wav" >>

\* the place of a name in sorted order
Rank(name) == CHOOSE k \in 1..Len(SortedNames) : SortedNames[k] = name

\* C17: the catalog rows of the files of one directory stand in sorted name
\* order, whatever order the filesystem lists them in; stated for runs without
\* any I/O failure.
C17_RowsInSortedOrder ==
    faults = 0 =>
        \A i, j \in DataRows : \A f, g \in Universe :
            (i < j /\ i \in RowsFor(f) /\ j \in RowsFor(g) /\ f.dirs = g.dirs)
                => Rank(PathName(f)) <= Rank(PathName(g))


-----------------------------------------------------------------------------
(* The name of the catalog.                                                  *)

\* the run tree as main found it: what is still there and what the walk has
\* taken out since
StartTree == tree \cup {handled[i] : i \in 1..Len(handled)}

\* the processable files among the given ones
Processable(files) == {f \in files : _route_ext(f) \in PROCESSABLE}

\* the catalog's stem when the single-file rule is applied to these files
NamedAfter(files) ==
    IF Cardinality(Processable(files)) = 1
    THEN (CHOOSE f \in Processable(files) : TRUE).stem
    ELSE RunName

\* C18 as stated: the catalog is <stem>.csv exactly when the whole run tree,
\* all directories included, holds one processable file, and <run_name>.csv
\* otherwise.
C18_SingleFileWholeTree == pc # "start" => csvStem = NamedAfter(StartTree)

\* C18 amended: the catalog is <stem>.csv exactly when the top level of the run
\* directory holds one processable file, whatever its subdirectories hold, and
\* <run_name>.csv otherwise.
C18_SingleFileTopLevel ==
    pc # "start" => csvStem = NamedAfter({f \in StartTree : f.dirs = <<>>})

\* a run with one processable file at the top level and another one below it
\* has ended, its catalog named after the first
C18_Witness ==
    /\ pc = "done" /\ csvStem = "a"
    /\ RowsFor(F(<<>>, "a", ".txt")) # {}
    /\ RowsFor(F(<<"s">>, "e", ".txt")) # {}


-----------------------------------------------------------------------------
(* Noise and unsupported files.                                              *)

\* the walk takes up the file f in this step
Handles(f) == pc = "walk" /\ handled' = Append(handled, f)

\* the step adds a manifest row for f with the reason "unsupported"
ManifestGetsUnsupported(f) ==
    \E k \in (Len(manifest) + 1)..Len(manifest') :
        /\ manifest'[k][1] \in {RelToRun(f), PathName(f)}
        /\ manifest'[k][2] = "unsupported"

\* C19: the step that handles a noise file (.wav) leaves the catalog, the
\* manifest, the text files, the chunks and the quarantine directory unchanged
\* and, when no I/O fails, deletes the file where it lies; the step that handles
\* an unsupported file (.xlsx, or any extension outside the supported set)
\* leaves the catalog, the text files and the chunks unchanged and, when no I/O
\* fails, moves the file to Mandatory Review and adds a manifest row with the
\* reason "unsupported".
C19_NoiseAndUnsupported ==
    [][\A f \in Universe : Handles(f) =>
          /\ _route_ext(f) = "noise_delete" =>
                /\ UNCHANGED <<catalog, manifest, txtFiles, chunks, mr>>
                /\ faults' = faults => f \notin tree'
          /\ _route_ext(f) = "unsupported" =>
                /\ UNCHANGED <<catalog, txtFiles, chunks>>
                /\ faults' = faults =>
                      /\ f \notin tree'
                      /\ PathName(f) \in DOMAIN mr' /\ mr'[PathName(f)] = f
                      /\ ManifestGetsUnsupported(f)]_vars

\* a run has deleted the noise file n.wav and quarantined the unsupported files
\* d.xlsx as "unsupported"
C19_Witness ==
    /\ pc = "done" /\ faults = 0
    /\ Deleted(F(<<>>, "n", ".wav"))
    /\ InReview(F(<<>>, "d", ".xlsx"))
    /\ \E k \in 1..Len(manifest) : manifest[k] = <<"d.xlsx", "unsupported">>
    /\ Len(catalog) = 1


-----------------------------------------------------------------------------
(* OCR-B's rotation sweep.                                                   *)

\* The run of the single file a.pdf at the moment pass_pdf.main enters OCR-B:
\* the text-layer pass and OCR-A have escalated, the mode is per-page.
InitOcrB ==
    /\ pc = "pass" /\ step = "pdf_ocr_b" /\ cur = F(<<>>, "a", ".pdf") /\ rc = 0
    /\ \E total_pages \in 1..MaxOcrBPages : \E size_mb \in SizesMB :
          ctx = [total_pages |-> total_pages, mode |-> "per-page", size_mb |-> size_mb]
    /\ tree = {F(<<>>, "a", ".pdf")}
    /\ dirsLeft = {} /\ todo = {} /\ handled = << F(<<>>, "a", ".pdf") >>
    /\ catalog = << CSV_HEADER >> /\ csvStem = "a"
    /\ txtFiles = <<>> /\ chunks = <<>> /\ manifest = <<>> /\ mr = <<>>
    /\ disp = [f \in Universe |-> "none"]
    /\ passLog = << "PDF start", "TXT begin", "TXT escalate", "OCR A begin", "OCR A escalate" >>
    /\ faults = 0
    /\ portfolio = NotScanned

NextOcrB == PdfOcrB \/ DeleteSource \/ QuarantineSource \/ Finish

SpecOcrB == InitOcrB /\ [][NextOcrB]_vars

\* OCR-B has accepted the PDF
OcrBAccepted == PdfAccepted /\ AcceptedPass = "pdf_ocr_b"

\* the page rows OCR-B returned for what it read
OcrBRows == pass_pdf_ocr_b_run(ctx.seen, ctx.mode, PASS_OCR_B_CUTOFF).payload.pages

\* the reliabilities of the rotations' outputs of page k
RotationScores(k) == {score_reliability(ctx.seen[k][r]) : r \in 1..Len(ROTATIONS)}

\* the row's text is the output of a rotation of highest reliability
IsBestRotation(k) ==
    \E r \in 1..Len(ROTATIONS) :
        /\ OcrBRows[k].text = ctx.seen[k][r]
        /\ score_reliability(ctx.seen[k][r]) = MaxOf(RotationScores(k))

\* C20 as stated: when OCR-B accepts, each page's text is the output of the
\* rotation among 0/90/270 of highest reliability (so always one of the three
\* outputs), and the page's reliability is that maximum.
C20_BestRotation ==
    OcrBAccepted =>
        \A k \in 1..Len(ctx.seen) :
            /\ IsBestRotation(k)
            /\ OcrBRows[k].reliability = MaxOf(RotationScores(k))

\* C20 amended: when OCR-B accepts, each page's reliability is the highest
\* among its three rotations; its text is the output of a rotation of that
\* reliability when this is above 0, and the empty text when no rotation
\* scores above 0.
C20_BestRotationOrEmpty ==
    OcrBAccepted =>
        \A k \in 1..Len(ctx.seen) :
            /\ OcrBRows[k].reliability = MaxOf(RotationScores(k))
            /\ IF MaxOf(RotationScores(k)) > 0
               THEN IsBestRotation(k)
               ELSE OcrBRows[k].text = Empty

\* OCR-B has accepted a PDF with a page whose best output came from a rotated
\* render and a page none of whose rotations scored above 0
C20_Witness ==
    /\ OcrBAccepted
    /\ \E k \in 1..Len(ctx.seen) :
          /\ score_reliability(ctx.seen[k][1]) = 0
          /\ OcrBRows[k].reliability > 0
    /\ \E k \in 1..Len(ctx.seen) :
          /\ MaxOf(RotationScores(k)) = 0
          /\ \A r \in 1..Len(ROTATIONS) : ctx.seen[k][r] # Empty
          /\ OcrBRows[k].text = Empty


-----------------------------------------------------------------------------
(* The free-space guard before OCR.                                          *)

\* the string holds the other one somewhere in it
Includes(str, part) ==
    \E i \in 1..(Len(str) - Len(part) + 1) : SubSeq(str, i, i + Len(part) - 1) = part

\* the pass that has returned ended at the free-space guard
LowDiskFailed == passLog # << >> /\ passLog[Len(passLog)] = "LOW_DISK"

\* C21: when the free-space check before OCR fails for a PDF, the file is
\* quarantined and a reason recorded for it in the review manifest includes
\* "LOW_DISK"; stated for the step in which the orchestrator quarantines it.
C21_LowDiskReason ==
    [][(pc = "returned" /\ LowDiskFailed /\ pc' = "walk") =>
          \E k \in (Len(manifest) + 1)..Len(manifest') :
              Includes(manifest'[k][2], "LOW_DISK")]_vars


-----------------------------------------------------------------------------
(* score_reliability on its own.                                             *)

\* the texts of at most two runs of characters of one kind
ScoredTexts ==
    LET runs == {Run(c, n) : c \in {"A", "S", "P"}, n \in 1..MaxRunLen}
    IN  {Empty} \cup {<<r>> : r \in runs} \cup {<<r1, r2>> : r1 \in runs, r2 \in runs}

\* a text is handed to score_reliability
InitScore ==
    /\ pc = "score" /\ step = "" /\ cur = NoFile /\ rc = 0
    /\ \E text \in ScoredTexts : ctx = [kind |-> "score", text |-> text]
    /\ tree = {} /\ dirsLeft = {} /\ todo = {} /\ handled = <<>>
    /\ catalog = <<>> /\ csvStem = ""
    /\ txtFiles = <<>> /\ chunks = <<>> /\ manifest = <<>> /\ mr = <<>>
    /\ disp = [f \in Universe |-> "none"]
    /\ passLog = <<>>
    /\ faults = 0
    /\ portfolio = NotScanned

\* common.score_reliability(text) returns
ScoreText ==
    /\ pc = "score"
    /\ pc' = "scored"
    /\ ctx' = [kind |-> "scored", text |-> ctx.text,
               reliability |-> score_reliability(ctx.text)]
    /\ UNCHANGED <<step, cur, rc, tree, dirsLeft, todo, handled, catalog, csvStem,
                   txtFiles, chunks, manifest, mr, disp, passLog, faults, portfolio>>

NextScore == ScoreText

SpecScore == InitScore /\ [][NextScore]_vars

\* C22: the score of a text is the share of letters and digits among its
\* characters, clamped to [0,1] and rounded to four decimals (so it is within
\* half of 0.0001 of the exact ratio and a whole number of 0.0001), and 0 for
\* the empty text; score("aaaa") = 1.0, score("!!!!") = 0.0, score("ab12!!") =
\* 0.6667.
C22_ScoreReliability ==
    pc = "scored" =>
        LET r == ctx.reliability
            total == TLen(ctx.text)
            alnum == AlnumCount(ctx.text)
            r4 == r \div (ScoreUnit \div 10000)
            diff == r4 * total - alnum * 10000
        IN  /\ 0 <= r /\ r <= ScoreUnit
            /\ r % (ScoreUnit \div 10000) = 0
            /\ total = 0 => r = 0
            /\ 2 * diff <= total /\ -2 * diff <= total
            /\ ctx.text = Txt("A", 4) => r = ScoreUnit
            /\ ctx.text = Txt("P", 4) => r = 0
            /\ ctx.text = << Run("A", 4), Run("P", 2) >> => r = Frac(6667, 10000)

\* "ab12!!" has been scored 0.6667
C22_Witness ==
    /\ pc = "scored"
    /\ ctx.text = << Run("A", 4), Run("P", 2) >>
    /\ ctx.reliability = Frac(6667, 10000)


-----------------------------------------------------------------------------
(* The text-layer pass's full extraction.                                    *)

\* the page entries of the full extraction of the PDF the text-layer pass
\* accepted
ExtractedPages == _per_page(ctx.seen)

\* C23: in the full extraction of a PDF with N pages the entry with page
\* number n carries the text layer and the reliability of page n, for every
\* n in 1..N: no page is read twice and the last page is not skipped.
C23_EveryPageOnce ==
    (PdfAccepted /\ AcceptedPass = "pdf_text") =>
        /\ Len(ExtractedPages) = Len(ctx.seen)
        /\ \A n \in 1..Len(ctx.seen) :
              /\ ExtractedPages[n].page = n
              /\ ExtractedPages[n].text = ctx.seen[n]
              /\ ExtractedPages[n].reliability = score_reliability(ctx.seen[n])


-----------------------------------------------------------------------------
(* The mode of the PDF cascade.                                              *)

\* the PDF is a big one
IsBigPdf == ctx.size_mb >= BIGPDF_SIZE_LIMIT_MB \/ ctx.total_pages >= BIGPDF_PAGE_LIMIT

\* the page markers 1..n, as the writer puts them
MarkersTo(n) == [k \in 1..n |-> Lit(PageMarker(k))]

-----------------------------------------------------------------------------
(* The resource policy before OCR.                                           *)

\* the log of the pass has a line of OCR-A or OCR-B
OcrInvoked(log) ==
    \E i \in 1..Len(log) : log[i] \in {"OCR A begin", "OCR B begin"}

\* C25: when the text-layer pass has not accepted and the free space of
\* WORK_DIR is known and below 1 GiB (0..1023 whole MB), the pass ends with a
\* failure exit code without OCR-A or OCR-B being invoked, and the orchestrator
\* then moves the file to Mandatory Review (when no I/O of the move fails); when
\* the free space is unknown or at least 1 GiB, OCR-A is invoked.
C25_NoOcrOnLowDisk ==
    [][/\ (pc = "pass" /\ step = "pdf_ocr_a") =>
             IF ctx.free_mb \in 0..1023
             THEN pc' = "returned" /\ rc' # 0 /\ ~OcrInvoked(passLog')
             ELSE passLog' = passLog \o << "OCR A begin", passLog'[Len(passLog')] >>
       /\ (pc = "returned" /\ LowDiskFailed) =>
             /\ ~OcrInvoked(passLog) /\ rc # 0
             /\ faults' = faults =>
                   /\ cur \notin tree'
                   /\ PathName(cur) \in DOMAIN mr' /\ mr'[PathName(cur)] = cur]_vars

\* the pass of a PDF has ended at the guard, which read 1023 MB free, with a
\* failure exit code and without OCR
C25_Witness ==
    /\ pc = "returned" /\ cur = F(<<>>, "a", ".pdf")
    /\ LowDiskFailed /\ ctx.free_mb = 1023
    /\ rc = 1 /\ ~OcrInvoked(passLog)


-----------------------------------------------------------------------------
(* The DOC/DOCX fallback.                                                    *)

\* the pass of a DOC or DOCX has ended with a failure exit code
DocRejected == pc = "returned" /\ _route_ext(cur) = "doc" /\ rc # 0

\* _fallback_via_pdf was called and returned False
FallbackTried == \E i \in 1..Len(passLog) : passLog[i] = "DOC/DOCX fallback failed"

\* C26: a DOC or DOCX is rejected with status ERROR only after the
\* DOC->PDF->text-layer fallback was attempted, whether the native text was
\* below the cutoff, empty, or could not be extracted at all; stated for runs
\* without any I/O failure of the writer.
C26_FallbackBeforeError ==
    faults = 0 => (DocRejected => FallbackTried)


\* the fallback has run the text-layer pass on the converted PDF
FallbackRan == pc = "returned" /\ _route_ext(cur) = "doc" /\ "seen" \in DOMAIN ctx

\* C27: in the DOC->PDF fallback any text is accepted: whenever a text layer of
\* the converted PDF holds a character that is not whitespace, the fallback
\* writes a row with pass_used doc_pdf_text and status OK, however short or
\* low-scoring the text; stated for runs without any I/O failure.
C27_FallbackAcceptsAnyText ==
    faults = 0 =>
        ((FallbackRan /\ \E n \in 1..Len(ctx.seen) : HasNonWs(ctx.seen[n])) =>
            \E i \in RowsFor(cur) : catalog[i][7] = "doc_pdf_text" /\ catalog[i][9] = "OK")


-----------------------------------------------------------------------------
(* The pre-pass run again.                                                   *)

\* every portfolio the first scan met was neutralized, by the move or in place
AllNeutralized ==
    /\ Neutralized # {}
    /\ portfolio.parents \subseteq {HiddenInPlace(f) : f \in portfolio.in_place}

\* C28: once the portfolio parents have been unpacked and neutralized, by the
\* move to the work directory or by the rename in place, a second scan over
\* the same tree detects none of them, extracts nothing and renames nothing:
\* it leaves the tree unchanged.
C28_RescanChangesNothing ==
    [][(portfolio.scanned /\ ~portfolio.rescanned /\ portfolio'.rescanned /\ AllNeutralized)
          => tree' = tree]_vars


-----------------------------------------------------------------------------
(* The review manifest and Mandatory Review.                                 *)

\* the files the orchestrator has quarantined
Quarantined == {f \in Universe : disp[f] = "quarantine"}

\* C29: every file the orchestrator quarantines adds exactly one row to
\* review_manifest.csv, and every row has the two columns of its header
\* (filename, reason); stated for runs without any I/O failure.
C29_OneManifestRowEach ==
    faults = 0 =>
        /\ Len(manifest) = (IF Quarantined = {} THEN 0 ELSE 1 + Cardinality(Quarantined))
        /\ \A k \in 1..Len(manifest) : Len(manifest[k]) = 2

\* C30: quarantining never loses a file: every file the orchestrator has
\* quarantined is present under Mandatory Review, also when two of them from
\* different directories share a basename; stated for runs without any I/O
\* failure.
C30_QuarantineKeepsEveryFile ==
    faults = 0 => \A f \in Quarantined : InReview(f)

=============================================================================
